---- MODULE Spec2Model ----
(***************************************************************************)
(* A model of ts-math-vec: the scalar arithmetic layer, the zipWith        *)
(* combinator, the Maybe container, the vector algebra functions and the   *)
(* NDimVector wrapper (a Proxy over an object that holds a reference to a  *)
(* JavaScript array).                                                      *)
(*                                                                         *)
(* JavaScript values are records [t, n]: t is the kind of value and n the  *)
(* integer of a finite integral number (0 for every other kind).  Numbers  *)
(* are the integers plus NaN, Infinity and -Infinity; -0 is identified     *)
(* with 0, which no modelled operation can tell apart because every        *)
(* divisor is a caller-supplied scalar or a square root.  An operation     *)
(* whose IEEE-754 result is not an integer or a special value has no       *)
(* representation here, and the actions' guards leave those inputs out.    *)
(***************************************************************************)
EXTENDS Integers, Sequences, FiniteSets, TLC

VARIABLES heap, vecs, thrown, call, ret

vars == <<heap, vecs, thrown, call, ret>>

\* ------------------------------------------------------------------ bounds

\* Longest array the caller builds, and the longest an array may grow to.
MaxLen == 2
\* Arrays on the heap, and NDimVector instances, a run may allocate.
MaxArrays == 3
MaxVecs == 2

\* ------------------------------------------------------------ JS values

Num(n) == [t |-> "num", n |-> n]
NaN == [t |-> "nan", n |-> 0]
PosInf == [t |-> "inf", n |-> 0]
NegInf == [t |-> "ninf", n |-> 0]
Undefined == [t |-> "undef", n |-> 0]
Null == [t |-> "null", n |-> 0]

IsFinite(v) == v.t = "num"
IsInfinite(v) == v.t \in {"inf", "ninf"}

\* ToNumber, applied by every arithmetic operator to its operands.
ToNumber(v) ==
    CASE v.t = "undef" -> NaN
      [] v.t = "null" -> Num(0)
      [] OTHER -> v

\* ToBoolean of a value: 0, NaN, undefined and null are falsy.
Truthy(v) ==
    CASE v.t = "num" -> v.n # 0
      [] v.t \in {"nan", "undef", "null"} -> FALSE
      [] OTHER -> TRUE

Sign(v) ==
    CASE v.t = "inf" -> 1
      [] v.t = "ninf" -> -1
      [] v.t = "num" -> IF v.n > 0 THEN 1 ELSE IF v.n < 0 THEN -1 ELSE 0
      [] OTHER -> 0

Signed(s) == IF s > 0 THEN PosInf ELSE NegInf

Negate(v) ==
    CASE v.t = "inf" -> NegInf
      [] v.t = "ninf" -> PosInf
      [] v.t = "num" -> Num(0 - v.n)
      [] OTHER -> v

\* l + r on numbers.
Plus(l0, r0) ==
    LET l == ToNumber(l0)
        r == ToNumber(r0)
    IN  CASE l.t = "nan" \/ r.t = "nan" -> NaN
          [] IsInfinite(l) /\ IsInfinite(r) -> IF l = r THEN l ELSE NaN
          [] IsInfinite(l) -> l
          [] IsInfinite(r) -> r
          [] OTHER -> Num(l.n + r.n)

\* l - r on numbers.
Minus(l0, r0) == Plus(ToNumber(l0), Negate(ToNumber(r0)))

\* l * r on numbers.
Times(l0, r0) ==
    LET l == ToNumber(l0)
        r == ToNumber(r0)
    IN  CASE l.t = "nan" \/ r.t = "nan" -> NaN
          [] IsInfinite(l) \/ IsInfinite(r) ->
                IF Sign(l) * Sign(r) = 0 THEN NaN ELSE Signed(Sign(l) * Sign(r))
          [] OTHER -> Num(l.n * r.n)

\* Whether l / r is an integer or a special value.
Divides(l0, r0) ==
    LET l == ToNumber(l0)
        r == ToNumber(r0)
    IN  (IsFinite(l) /\ IsFinite(r) /\ r.n # 0) => l.n % (IF r.n < 0 THEN 0 - r.n ELSE r.n) = 0

\* l / r on numbers, for operands with Divides(l, r).
Over(l0, r0) ==
    LET l == ToNumber(l0)
        r == ToNumber(r0)
        abs(k) == IF k < 0 THEN 0 - k ELSE k
    IN  CASE l.t = "nan" \/ r.t = "nan" -> NaN
          [] IsInfinite(l) /\ IsInfinite(r) -> NaN
          [] IsInfinite(l) -> IF Sign(r) < 0 THEN Negate(l) ELSE l
          [] IsInfinite(r) -> Num(0)
          [] r.n = 0 -> IF l.n = 0 THEN NaN ELSE Signed(l.n)
          [] OTHER -> Num(Sign(l) * Sign(r) * (abs(l.n) \div abs(r.n)))

\* Whether Math.sqrt(v) is an integer or a special value.
HasSqrt(v) == (IsFinite(v) /\ v.n >= 0) => \E k \in 0..v.n : k * k = v.n

\* Math.sqrt(v), for values with HasSqrt(v).
Sqrt(v0) ==
    LET v == ToNumber(v0)
    IN  CASE v.t = "nan" \/ v.t = "ninf" -> NaN
          [] v.t = "inf" -> PosInf
          [] v.n < 0 -> NaN
          [] OTHER -> Num(CHOOSE k \in 0..v.n : k * k = v.n)

\* ------------------------------------------------------- scalar/math/math.ts

scalarAdd(l, r) == Plus(l, r)
subtract(l, r) == Minus(l, r)
multiply(l, r) == Times(l, r)
scalarDiv(l, r) == Over(l, r)
square(n) == Times(n, n)

\* ns.reduce(add, 0)
sum(ns) ==
    LET acc[k \in 0..Len(ns)] == IF k = 0 THEN Num(0) ELSE scalarAdd(acc[k - 1], ns[k])
    IN  acc[Len(ns)]

\* sum(ns) / ns.length
avg(ns) == scalarDiv(sum(ns), Num(Len(ns)))

\* The curried forms: the first parameter is the one fixed first.
addTo(l, r) == scalarAdd(l, r)
mulBy(l, r) == multiply(l, r)
subFrom(minuend, subtrahend) == subtract(minuend, subtrahend)
subBY(subtrahend, minuend) == subtract(minuend, subtrahend)
divInto(dividend, divisor) == scalarDiv(dividend, divisor)
divBy(divisor, dividend) == scalarDiv(dividend, divisor)

\* ------------------------------------------------------------- fn/utils.ts

\* collection[i] of a JavaScript array: undefined past the end.
At(collection, i) == IF i >= 0 /\ i < Len(collection) THEN collection[i + 1] ELSE Undefined

len(collection) == Len(collection)
isEmpty(collection) == len(collection) = 0
head(collection) == At(collection, 0)

\* collection.slice(start): ret is the new array, self the receiver afterwards.
slice(collection, start) ==
    [ret |-> SubSeq(collection, start + 1, Len(collection)), self |-> collection]

\* collection.shift(), which removes the first element from the receiver.
tailShift(collection) ==
    [ret |-> SubSeq(collection, 2, Len(collection)),
     self |-> SubSeq(collection, 2, Len(collection))]
tail(collection) == slice(collection, 1)

\* --------------------------------------------------------------- fn/zip.ts

\* The i-th argument (from 1) a function body reads: undefined when not passed.
Arg(args, i) == IF i <= Len(args) THEN args[i] ELSE Undefined

\* The combining functions the callers pass, applied to an argument list.
\*   "plus"      (a, b) => a + b              vector/math.ts add
\*   "subtract"  (l, r) => l - r              scalar/math/math.ts sub
\*   "multiply"  (l, r) => l * r              scalar/math/math.ts mul
\*   "mid"       (l, r) => (l + r) / 2        vector/math.ts mid
\*   "weigh"     (a, b, c) => a + 2*b + 4*c   a caller's function that tells
\*                                            its argument positions apart
Fn(fn, args) ==
    CASE fn = "plus" -> Plus(Arg(args, 1), Arg(args, 2))
      [] fn = "subtract" -> subtract(Arg(args, 1), Arg(args, 2))
      [] fn = "multiply" -> multiply(Arg(args, 1), Arg(args, 2))
      [] fn = "mid" -> Over(Plus(Arg(args, 1), Arg(args, 2)), Num(2))
      [] fn = "weigh" -> Plus(Plus(Arg(args, 1), Times(Num(2), Arg(args, 2))),
                              Times(Num(4), Arg(args, 3)))

\* zipWith(fn, ...xs), for at least one array: out is the array returned,
\* calls the number of times fn was invoked, xs the input arrays afterwards.
RECURSIVE zzzipwith(_, _)
zzzipwith(fn, xs) ==
    IF \E k \in DOMAIN xs : isEmpty(xs[k])
    THEN [out |-> <<>>, calls |-> 0, xs |-> xs]
    ELSE LET heads == [k \in DOMAIN xs |-> head(xs[k])]
             tails == [k \in DOMAIN xs |-> tail(xs[k])]
             first == Fn(fn, heads)
             rest == zzzipwith(fn, [k \in DOMAIN xs |-> tails[k].ret])
         IN  [out |-> <<first>> \o rest.out,
              calls |-> 1 + rest.calls,
              xs |-> [k \in DOMAIN xs |-> tails[k].self]]

\* ------------------------------------------------------------ vector/math.ts

\* The functions passed to map and reduce, as closures: f names the function,
\* the other fields are the variables it closes over, and args are the
\* arguments of one invocation (an index is a plain integer).
\*   "mulBy"       r => l * r                              curry mulBy(l)
\*   "divBy"       dividend => dividend / divisor          curry divBy(divisor)
\*   "dotStep"     (acc, cur, idx) => acc + cur * rs[idx]  dot
\*   "squareStep"  (acc, val) => acc + val * val           magSquared
\*   "negate"      n => -n                                 a caller's function
\*   "plusIndex"   (n, i) => n + i                         a caller's function
Closure(fn, args) ==
    CASE fn.f = "mulBy" -> mulBy(fn.l, args[1])
      [] fn.f = "divBy" -> divBy(fn.divisor, args[1])
      [] fn.f = "dotStep" -> Plus(args[1], Times(args[2], At(fn.rs, args[3])))
      [] fn.f = "squareStep" -> Plus(args[1], Times(args[2], args[2]))
      [] fn.f = "negate" -> Minus(Num(0), args[1])
      [] fn.f = "plusIndex" -> Plus(args[1], Num(args[2]))

\* vector.map(fn): fn receives the component and its index; a new array.
map(fn, vector) == [i \in 1..Len(vector) |-> Closure(fn, <<vector[i], i - 1>>)]

\* vector.reduce(fn, initial): a left fold in index order.
reduce(fn, vector, initial) ==
    LET acc[k \in 0..Len(vector)] ==
            IF k = 0 THEN initial ELSE Closure(fn, <<acc[k - 1], vector[k], k - 1>>)
    IN  acc[Len(vector)]

zipWith(fn, xs, ys) == zzzipwith(fn, <<xs, ys>>).out

add(augend, addend) == zipWith("plus", augend, addend)

subAsAdd(minuend, subtrahend) == zipWith("plus", minuend, subtrahend)
sub(minuend, subtrahend) == zipWith("subtract", minuend, subtrahend)

mul(vector, scalar) == map([f |-> "mulBy", l |-> scalar], vector)
div(vector, scalar) == map([f |-> "divBy", divisor |-> scalar], vector)

dotSquares(ls, rs) == reduce([f |-> "squareStep"], ls, Num(0))
dot(ls, rs) == reduce([f |-> "dotStep", rs |-> rs], ls, Num(0))

magSquared(vector) == reduce([f |-> "squareStep"], vector, Num(0))
magnitude(vector) == Sqrt(magSquared(vector))
unit(vector) == map([f |-> "divBy", divisor |-> magnitude(vector)], vector)
mid(ls, rs) == zipWith("mid", ls, rs)

\* Whether every component of the quotient, the unit vector and the midpoint
\* is an integer or a special value.
DivExact(vector, scalar) == \A i \in 1..Len(vector) : Divides(vector[i], scalar)
UnitExact(vector) == HasSqrt(magSquared(vector)) /\ DivExact(vector, magnitude(vector))
MidExact(ls, rs) ==
    \A i \in 1..Len(ls) : i <= Len(rs) => Divides(Plus(ls[i], rs[i]), Num(2))

\* --------------------------------------------------------------- fn/maybe1.ts

\* The module's exported sentinel, Symbol('none').
none == [t |-> "none", n |-> 0]

\* new Maybe(value): the object's one private field.
Maybe(value) == [value |-> value]

Maybe_none == Maybe(none)

Maybe_justNoCoercion(value) == Maybe(value)
Maybe_just(value) ==
    IF value = Null \/ value = Undefined THEN Maybe_none ELSE Maybe(value)

Maybe_from(value) == Maybe_just(value)

\* What a call that throws TypeError yields in place of a value.
TypeError == [t |-> "TypeError", n |-> 0]

\* The functions a caller passes to map, and the handlers it passes to match.
\*   "id" x => x   "double" x => x * 2   "toNull" () => null
\*   "toUndefined" () => undefined   "toNone" () => none   "minusOne" () => -1
\* x * 2 converts x to a number, which throws TypeError for a symbol.
MapFn(f, v) ==
    CASE f = "id" -> v
      [] f = "double" -> IF v = none THEN TypeError ELSE Times(v, Num(2))
      [] f = "toNull" -> Null
      [] f = "toUndefined" -> Undefined
      [] f = "toNone" -> none
      [] f = "minusOne" -> Num(-1)

\* The functions a caller passes to flatMap: each returns a Maybe.
\*   "justOf" v => Maybe.just(v)   "justDouble" v => Maybe.just(v * 2)
\*   "nothing" () => Maybe.none()
FlatMapFn(f, v) ==
    CASE f = "justOf" -> Maybe_just(v)
      [] f = "justDouble" -> IF v = none THEN TypeError ELSE Maybe_just(Times(v, Num(2)))
      [] f = "nothing" -> Maybe_none

\* m.map(f): value is the Maybe returned, fcalls the invocations of f.
Maybe_mapRaw(m, f) ==
    IF m.value = none
    THEN [value |-> Maybe_none, fcalls |-> 0]
    ELSE [value |-> Maybe_justNoCoercion(MapFn(f, m.value)), fcalls |-> 1]
Maybe_map(m, f) ==
    IF m.value = none
    THEN [value |-> Maybe_none, fcalls |-> 0]
    ELSE [value |-> Maybe_just(MapFn(f, m.value)), fcalls |-> 1]

\* m.match({just, none}): value is the result (TypeError when the handler
\* throws it), invoked the handlers called, in order, and args what each was
\* called with.  The destructured parameter none shadows the module's symbol
\* inside the method, so this.value === none compares the value with the none
\* handler, a function no Maybe of the model holds: the test fails for every
\* receiver, the none marker included, and the just handler is called with
\* this.value.
Maybe_match(m, just, noneHandler) ==
    [value |-> MapFn(just, m.value), invoked |-> <<"just">>, args |-> <<m.value>>]

\* m.flatMap(f)
Maybe_flatMap(m, f) ==
    IF m.value = none
    THEN [value |-> Maybe_none, fcalls |-> 0]
    ELSE [value |-> FlatMapFn(f, m.value), fcalls |-> 1]

\* -------------------------------------------------- the calls of a pure function

\* No call made yet, and nothing returned.
Idle == [op |-> "idle"]
NoRet == [op |-> "idle"]

\* Largest integer component or scalar a caller passes (the smallest is -1).
MaxInt == 1
\* Longest vector passed to the vector algebra.
MaxDim == 3
\* Most arrays, and the longest array, passed to zipWith.
MaxZipArity == 3
MaxZipLen == 2
\* Longest chain of calls on one Maybe.
MaxChain == 2
\* Deepest nesting of calls the engine's stack holds: one more nested call
\* raises RangeError (larger than any nesting a call with an empty-able input needs).
MaxStack == 4

Ints == {Num(n) : n \in -1..MaxInt}
SeqsUpTo(S, n) == UNION {[1..k -> S] : k \in 0..n}
Vectors == SeqsUpTo(Ints, MaxDim)

\* The values a caller stores in zipped arrays and in a Maybe.
ZipVals == {Num(1), Num(2)}
ZipFns == {"plus", "subtract", "multiply", "weigh"}
MaybeVals == {Num(0), Num(1), Num(5), Null, Undefined, none}
MapFns == {"id", "double", "toNull", "toUndefined", "toNone"}
FlatMapFns == {"justOf", "justDouble", "nothing"}

HeapIdle == heap = <<>> /\ vecs = <<>> /\ thrown = FALSE
HeapUnchanged == UNCHANGED <<heap, vecs, thrown>>

\* ----------------------------------------------- calls of the vector algebra

\* What a call of the vector algebra returns: its value, the error raised
\* ("none": the code raises none) and the invocations of the combining function.
Returned(value, calls) == [value |-> value, error |-> "none", calls |-> calls]

InitAlgebra == HeapIdle /\ call = Idle /\ ret = NoRet

CallAdd(a, b) ==
    /\ call' = [op |-> "add", a |-> a, b |-> b]
    /\ ret' = Returned(add(a, b), zzzipwith("plus", <<a, b>>).calls)
    /\ HeapUnchanged

CallSub(a, b) ==
    /\ call' = [op |-> "sub", a |-> a, b |-> b]
    /\ ret' = Returned(sub(a, b), zzzipwith("subtract", <<a, b>>).calls)
    /\ HeapUnchanged

CallMid(a, b) ==
    /\ MidExact(a, b)
    /\ call' = [op |-> "mid", a |-> a, b |-> b]
    /\ ret' = Returned(mid(a, b), zzzipwith("mid", <<a, b>>).calls)
    /\ HeapUnchanged

CallDot(a, b) ==
    /\ call' = [op |-> "dot", a |-> a, b |-> b]
    /\ ret' = Returned(dot(a, b), Len(a))
    /\ HeapUnchanged

CallMul(v, s) ==
    /\ call' = [op |-> "mul", a |-> v, s |-> s]
    /\ ret' = Returned(mul(v, s), Len(v))
    /\ HeapUnchanged

CallDiv(v, s) ==
    /\ DivExact(v, s)
    /\ call' = [op |-> "div", a |-> v, s |-> s]
    /\ ret' = Returned(div(v, s), Len(v))
    /\ HeapUnchanged

CallMagnitude(v) ==
    /\ HasSqrt(magSquared(v))
    /\ call' = [op |-> "magnitude", a |-> v]
    /\ ret' = Returned(magnitude(v), Len(v))
    /\ HeapUnchanged

CallUnit(v) ==
    /\ UnitExact(v)
    /\ call' = [op |-> "unit", a |-> v]
    /\ ret' = Returned(unit(v), Len(v))
    /\ HeapUnchanged

NextAlgebra ==
    \/ call = Idle /\ \E a, b \in Vectors : CallAdd(a, b)
    \/ call = Idle /\ \E a, b \in Vectors : CallSub(a, b)
    \/ call = Idle /\ \E a, b \in Vectors : CallMid(a, b)
    \/ call = Idle /\ \E a, b \in Vectors : CallDot(a, b)
    \/ call = Idle /\ \E v \in Vectors, s \in Ints : CallMul(v, s)
    \/ call = Idle /\ \E v \in Vectors, s \in Ints : CallDiv(v, s)
    \/ call = Idle /\ \E v \in Vectors : CallMagnitude(v)
    \/ call = Idle /\ \E v \in Vectors : CallUnit(v)

SpecAlgebra == InitAlgebra /\ [][NextAlgebra]_vars

\* ------------------------------------------------------------ calls of zipWith

ZipInputs == UNION {[1..k -> SeqsUpTo(ZipVals, MaxZipLen)] : k \in 1..MaxZipArity}

InitZip == HeapIdle /\ call = Idle /\ ret = NoRet

CallZipWith(fn, xs) ==
    /\ call' = [op |-> "zipWith", fn |-> fn, xs |-> xs]
    /\ ret' = zzzipwith(fn, xs)
    /\ HeapUnchanged

NextZip == call = Idle /\ \E fn \in ZipFns, xs \in ZipInputs : CallZipWith(fn, xs)

SpecZip == InitZip /\ [][NextZip]_vars

\* -------------------------------------------- zipWith, one activation at a time
\* call is the outermost call; ret is the innermost activation: the arrays it
\* was passed (xs), how many activations are on the stack (depth), the results
\* of fn so far in index order (out), and status: "running", "returned" once
\* the base case was reached and every activation returned, or "RangeError"
\* once the stack was exhausted.

\* What a caller passes after fn: as ZipInputs, or no array at all.
ZipCalls == ZipInputs \cup {<<>>}

InitZipSteps == HeapIdle /\ call = Idle /\ ret = NoRet

\* zipWith(fn, ...xs) is called.
ZipEnter(fn, xs) ==
    /\ call' = [op |-> "zipWith", fn |-> fn, xs |-> xs]
    /\ ret' = [status |-> "running", xs |-> xs, depth |-> 1, out |-> <<>>]
    /\ HeapUnchanged

\* xs.some(isEmpty) holds: the activation returns [], and so do its callers.
ZipBase ==
    /\ call.op = "zipWith"
    /\ ret.status = "running"
    /\ \E k \in DOMAIN ret.xs : isEmpty(ret.xs[k])
    /\ ret' = [ret EXCEPT !.status = "returned"]
    /\ UNCHANGED call
    /\ HeapUnchanged

\* xs.some(isEmpty) fails: fn(...xs.map(head)), then zipWith(fn, ...xs.map(tail)).
ZipRecurse ==
    /\ call.op = "zipWith"
    /\ ret.status = "running"
    /\ ~ \E k \in DOMAIN ret.xs : isEmpty(ret.xs[k])
    /\ ret.depth < MaxStack
    /\ ret' = [ret EXCEPT !.xs = [k \in DOMAIN ret.xs |-> tail(ret.xs[k]).ret],
                          !.depth = @ + 1,
                          !.out = Append(@, Fn(call.fn, [k \in DOMAIN ret.xs |-> head(ret.xs[k])]))]
    /\ UNCHANGED call
    /\ HeapUnchanged

\* The nested call finds the stack full.
ZipOverflow ==
    /\ call.op = "zipWith"
    /\ ret.status = "running"
    /\ ~ \E k \in DOMAIN ret.xs : isEmpty(ret.xs[k])
    /\ ret.depth = MaxStack
    /\ ret' = [ret EXCEPT !.status = "RangeError"]
    /\ UNCHANGED call
    /\ HeapUnchanged

NextZipSteps ==
    \/ call = Idle /\ \E fn \in ZipFns, xs \in ZipCalls : ZipEnter(fn, xs)
    \/ ZipBase
    \/ ZipRecurse
    \/ ZipOverflow

SpecZipSteps == InitZipSteps /\ [][NextZipSteps]_vars

\* -------------------------------------------------------------- calls of Maybe

IsMaybeOp(op) == op \in {"new", "just", "none", "from", "map", "flatMap"}

InitMaybe == HeapIdle /\ call = Idle /\ ret = NoRet

\* A call that starts a chain: new Maybe(v), Maybe.just(v), Maybe.from(v), Maybe.none().
CallNew(v) ==
    /\ call' = [op |-> "new", arg |-> v, depth |-> 0]
    /\ ret' = [value |-> Maybe(v), fcalls |-> 0]
    /\ HeapUnchanged

CallJust(v) ==
    /\ call' = [op |-> "just", arg |-> v, depth |-> 0]
    /\ ret' = [value |-> Maybe_just(v), fcalls |-> 0]
    /\ HeapUnchanged

CallFrom(v) ==
    /\ call' = [op |-> "from", arg |-> v, depth |-> 0]
    /\ ret' = [value |-> Maybe_from(v), fcalls |-> 0]
    /\ HeapUnchanged

CallNone ==
    /\ call' = [op |-> "none", arg |-> Undefined, depth |-> 0]
    /\ ret' = [value |-> Maybe_none, fcalls |-> 0]
    /\ HeapUnchanged

\* A call on the Maybe the last call returned.
CallMap(f) ==
    /\ IsMaybeOp(call.op)
    /\ call.depth < MaxChain
    /\ call' = [op |-> "map", recv |-> ret.value, f |-> f, depth |-> call.depth + 1]
    /\ ret' = Maybe_map(ret.value, f)
    /\ HeapUnchanged

CallFlatMap(f) ==
    /\ IsMaybeOp(call.op)
    /\ call.depth < MaxChain
    /\ call' = [op |-> "flatMap", recv |-> ret.value, f |-> f, depth |-> call.depth + 1]
    /\ ret' = Maybe_flatMap(ret.value, f)
    /\ HeapUnchanged

CallMatch(just, noneHandler) ==
    /\ IsMaybeOp(call.op)
    /\ call' = [op |-> "match", recv |-> ret.value, just |-> just, none |-> noneHandler]
    /\ ret' = Maybe_match(ret.value, just, noneHandler)
    /\ HeapUnchanged

NextMaybe ==
    \/ call = Idle /\ \E v \in MaybeVals : CallNew(v)
    \/ call = Idle /\ \E v \in MaybeVals : CallJust(v)
    \/ call = Idle /\ \E v \in MaybeVals : CallFrom(v)
    \/ call = Idle /\ CallNone
    \/ \E f \in MapFns : CallMap(f)
    \/ \E f \in FlatMapFns : CallFlatMap(f)
    \/ \E just \in {"id", "double"} : CallMatch(just, "minusOne")

SpecMaybe == InitMaybe /\ [][NextMaybe]_vars

\* ------------------------------------------------------------- NDimVector
\* heap is the JavaScript heap's arrays: heap[r] the elements of array r.  The
\* caller holds a reference to every one of them: it built the array itself, or
\* reads it from the public field components of a vector.  vecs are the
\* NDimVector instances: components is the reference the field holds, named
\* the own data properties x, y, z, w that the constructor
\* defines on the Proxy's target (named[i] is the property of label i).
\* thrown is whether the last operation ended in a TypeError.

VectorComponentLabels == <<"x", "y", "z", "w">>

\* The values a caller writes, the scalars it multiplies and divides by, and the
\* functions it passes to map: "negate" n => -n, "plusIndex" (n, i) => n + i.
WriteVals == {Num(0), Num(1)}
Scalars == {Num(0), Num(2)}
VecMapFns == {"negate", "plusIndex"}
CallerArrays == UNION {[1..k -> WriteVals] : k \in 1..MaxLen}

\* get mappedComponents: one entry per component that has a label.
mappedComponents(components) ==
    [i \in 1..(IF Len(components) < Len(VectorComponentLabels)
               THEN Len(components) ELSE Len(VectorComponentLabels)) |-> components[i]]

\* new NDimVector(components), for the array reference r in heap h: the field
\* holds the reference it is given, and Object.defineProperties copies the
\* entries of mappedComponents onto the target as data properties.
NDimVector(r, h) == [components |-> r, named |-> mappedComponents(h[r])]

components(k) == heap[vecs[k].components]
getItem(k, index) == At(components(k), index)
length(k) == Len(components(k))

\* The Proxy's get trap for the label of axis i (from 0): an own property of
\* the target when the constructor defined it, and getItem(NaN) otherwise.
getNamed(k, i) == IF i < Len(vecs[k].named) THEN vecs[k].named[i + 1] ELSE Undefined

\* NDimVector.getComponents(vector): the operand is an NDimVector or an array.
getComponents(other) ==
    IF other.kind = "vec" THEN components(other.at) ELSE heap[other.at]

Others ==
    {[kind |-> "vec", at |-> k] : k \in DOMAIN vecs}
        \cup {[kind |-> "arr", at |-> r] : r \in DOMAIN heap}

\* array[index] = value, for an index up to the array's length.
Store(array, index, value) ==
    IF index < Len(array) THEN [array EXCEPT ![index + 1] = value] ELSE Append(array, value)

\* An index a write uses: one of the array's, or the one past its end while
\* the array is shorter than MaxLen (no write leaves a hole in the array).
Writable(array, index) == index \in 0..Len(array) /\ index < MaxLen

Init ==
    /\ heap = <<>>
    /\ vecs = <<>>
    /\ thrown = FALSE
    /\ call = Idle
    /\ ret = NoRet

\* The caller builds an array.
NewArray(s) ==
    /\ heap' = Append(heap, s)
    /\ thrown' = FALSE
    /\ UNCHANGED vecs

\* The caller writes into an array: array[index] = value.
CallerWrite(r, index, value) ==
    /\ Writable(heap[r], index)
    /\ heap' = [heap EXCEPT ![r] = Store(@, index, value)]
    /\ thrown' = FALSE
    /\ UNCHANGED vecs

\* new NDimVector(array)
Construct(r) ==
    /\ vecs' = Append(vecs, NDimVector(r, heap))
    /\ thrown' = FALSE
    /\ UNCHANGED heap

\* NDimVector.from(tuple)
From(r) ==
    /\ vecs' = Append(vecs, NDimVector(r, heap))
    /\ thrown' = FALSE
    /\ UNCHANGED heap

\* vec.setItem(index, value)
SetItem(k, index, value) ==
    /\ Writable(components(k), index)
    /\ heap' = [heap EXCEPT ![vecs[k].components] = Store(@, index, value)]
    /\ thrown' = FALSE
    /\ UNCHANGED vecs

\* vec[index] = value: the set trap, for a property the target does not have,
\* stores into components and returns the value; a falsy return makes the
\* assignment a TypeError in strict code (every module is strict code).
IndexWrite(k, index, value) ==
    /\ Writable(components(k), index)
    /\ heap' = [heap EXCEPT ![vecs[k].components] = Store(@, index, value)]
    /\ thrown' = ~Truthy(value)
    /\ UNCHANGED vecs

\* vec.x = value (axis i from 0): the set trap, for a property the target
\* has, assigns the target's own property and returns the value.
NamedWrite(k, i, value) ==
    /\ i < Len(vecs[k].named)
    /\ vecs' = [vecs EXCEPT ![k].named[i + 1] = value]
    /\ thrown' = ~Truthy(value)
    /\ UNCHANGED heap

\* return new NDimVector(result): result is a new array.
Wrap(result) ==
    /\ heap' = Append(heap, result)
    /\ vecs' = Append(vecs, NDimVector(Len(heap) + 1, heap'))
    /\ thrown' = FALSE

Map(k, fn) == Wrap(map([f |-> fn], components(k)))

Add(k, other) == Wrap(add(components(k), getComponents(other)))

Sub(k, other) == Wrap(sub(components(k), getComponents(other)))

Mul(k, scalar) == Wrap(mul(components(k), scalar))

Div(k, scalar) ==
    /\ DivExact(components(k), scalar)
    /\ Wrap(div(components(k), scalar))

Unit(k) ==
    /\ UnitExact(components(k))
    /\ Wrap(unit(components(k)))

\* vec.midpoint(other) calls midpoint, a name the class imports from "./math";
\* no module exports it, so the name holds undefined and the call throws
\* TypeError before anything is computed or built.
Midpoint(k, other) ==
    /\ thrown' = TRUE
    /\ UNCHANGED <<heap, vecs>>

Indices == 0..MaxLen

\* The caller's calls leave the record of the pure functions' calls alone.
Idling == UNCHANGED <<call, ret>>

\* Any sequence of operations, while the heap has room.
Next ==
    \/ Idling /\ Len(heap) < MaxArrays /\ \E s \in CallerArrays : NewArray(s)
    \/ Idling /\ Len(vecs) < MaxVecs /\ \E r \in DOMAIN heap : Construct(r)
    \/ Idling /\ Len(vecs) < MaxVecs /\ \E r \in DOMAIN heap : From(r)
    \/ Idling /\ \E r \in DOMAIN heap, i \in Indices, v \in WriteVals : CallerWrite(r, i, v)
    \/ Idling /\ \E k \in DOMAIN vecs, i \in Indices, v \in WriteVals : SetItem(k, i, v)
    \/ Idling /\ \E k \in DOMAIN vecs, i \in Indices, v \in WriteVals : IndexWrite(k, i, v)
    \/ Idling /\ \E k \in DOMAIN vecs, i \in Indices, v \in WriteVals : NamedWrite(k, i, v)
    \/ Idling /\ Len(heap) < MaxArrays /\ Len(vecs) < MaxVecs
              /\ \E k \in DOMAIN vecs, fn \in VecMapFns : Map(k, fn)
    \/ Idling /\ Len(heap) < MaxArrays /\ Len(vecs) < MaxVecs
              /\ \E k \in DOMAIN vecs : \E other \in Others : Add(k, other)
    \/ Idling /\ Len(heap) < MaxArrays /\ Len(vecs) < MaxVecs
              /\ \E k \in DOMAIN vecs : \E other \in Others : Sub(k, other)
    \/ Idling /\ Len(heap) < MaxArrays /\ Len(vecs) < MaxVecs
              /\ \E k \in DOMAIN vecs, s \in Scalars : Mul(k, s)
    \/ Idling /\ Len(heap) < MaxArrays /\ Len(vecs) < MaxVecs
              /\ \E k \in DOMAIN vecs, s \in Scalars : Div(k, s)
    \/ Idling /\ Len(heap) < MaxArrays /\ Len(vecs) < MaxVecs
              /\ \E k \in DOMAIN vecs : Unit(k)
    \/ Idling /\ \E k \in DOMAIN vecs : \E other \in Others : Midpoint(k, other)

Spec == Init /\ [][Next]_vars

\* Any sequence of the vectors' own operations: the caller builds arrays and
\* vectors over them, and afterwards reaches the arrays through the vectors only.
NextVector ==
    \/ Idling /\ Len(heap) < MaxArrays /\ \E s \in CallerArrays : NewArray(s)
    \/ Idling /\ Len(vecs) < MaxVecs /\ \E r \in DOMAIN heap : Construct(r)
    \/ Idling /\ Len(vecs) < MaxVecs /\ \E r \in DOMAIN heap : From(r)
    \/ Idling /\ \E k \in DOMAIN vecs, i \in Indices, v \in WriteVals : SetItem(k, i, v)
    \/ Idling /\ \E k \in DOMAIN vecs, i \in Indices, v \in WriteVals : IndexWrite(k, i, v)
    \/ Idling /\ \E k \in DOMAIN vecs, i \in Indices, v \in WriteVals : NamedWrite(k, i, v)
    \/ Idling /\ Len(heap) < MaxArrays /\ Len(vecs) < MaxVecs
              /\ \E k \in DOMAIN vecs, fn \in VecMapFns : Map(k, fn)
    \/ Idling /\ Len(heap) < MaxArrays /\ Len(vecs) < MaxVecs
              /\ \E k \in DOMAIN vecs : \E other \in Others : Add(k, other)
    \/ Idling /\ Len(heap) < MaxArrays /\ Len(vecs) < MaxVecs
              /\ \E k \in DOMAIN vecs : \E other \in Others : Sub(k, other)
    \/ Idling /\ Len(heap) < MaxArrays /\ Len(vecs) < MaxVecs
              /\ \E k \in DOMAIN vecs, s \in Scalars : Mul(k, s)
    \/ Idling /\ Len(heap) < MaxArrays /\ Len(vecs) < MaxVecs
              /\ \E k \in DOMAIN vecs, s \in Scalars : Div(k, s)
    \/ Idling /\ Len(heap) < MaxArrays /\ Len(vecs) < MaxVecs
              /\ \E k \in DOMAIN vecs : Unit(k)
    \/ Idling /\ \E k \in DOMAIN vecs : \E other \in Others : Midpoint(k, other)

SpecVector == Init /\ [][NextVector]_vars

\* Two vectors v and o built over arrays of the caller, over one array or over
\* two; then r = v.method(o), or o.method(v); then one component assignment.
InitFrame ==
    /\ \E a, b \in CallerArrays : heap = <<a, b>>
    /\ \E r \in {1, 2} : vecs = <<NDimVector(1, heap), NDimVector(r, heap)>>
    /\ thrown = FALSE
    /\ call = [op |-> "constructed"]
    /\ ret = NoRet

\* The method call, and the assignment after it.
Returning == call.op = "constructed" /\ call' = [op |-> "returned"] /\ UNCHANGED ret
Assigning == call.op = "returned" /\ call' = [op |-> "assigned"] /\ UNCHANGED ret

NextFrame ==
    \/ Returning /\ \E k \in DOMAIN vecs, fn \in VecMapFns : Map(k, fn)
    \/ Returning /\ \E k \in DOMAIN vecs : \E other \in Others : Add(k, other)
    \/ Returning /\ \E k \in DOMAIN vecs : \E other \in Others : Sub(k, other)
    \/ Returning /\ \E k \in DOMAIN vecs, s \in Scalars : Mul(k, s)
    \/ Returning /\ \E k \in DOMAIN vecs, s \in Scalars : Div(k, s)
    \/ Returning /\ \E k \in DOMAIN vecs : Unit(k)
    \/ Returning /\ \E k \in DOMAIN vecs : \E other \in Others : Midpoint(k, other)
    \/ Assigning /\ \E r \in DOMAIN heap, i \in Indices, v \in WriteVals : CallerWrite(r, i, v)
    \/ Assigning /\ \E k \in DOMAIN vecs, i \in Indices, v \in WriteVals : SetItem(k, i, v)
    \/ Assigning /\ \E k \in DOMAIN vecs, i \in Indices, v \in WriteVals : IndexWrite(k, i, v)
    \/ Assigning /\ \E k \in DOMAIN vecs, i \in Indices, v \in WriteVals : NamedWrite(k, i, v)

SpecFrame == InitFrame /\ [][NextFrame]_vars

\* ===================================================== claims: NDimVector

\* C1: for every vector and every axis i < min(N, 4), N the dimension the vector
\* was built with, the named axis reads the same value as getItem(i) and
\* components[i], in every state reachable by setItem, indexed writes and named
\* writes.
NamedViewMatchesIndexed ==
    \A k \in DOMAIN vecs :
        \A i \in 0..(Len(vecs[k].named) - 1) :
            getNamed(k, i) = getItem(k, i) /\ getNamed(k, i) = components(k)[i + 1]

\* C3: the length of a vector never changes, whatever operation runs.
LengthFixed == [][\A k \in DOMAIN vecs : length(k)' = length(k)]_vars

\* C4: a write by the caller into an array, and a setItem on one vector, change
\* the components of no (other) vector.
SingleOwner ==
    [][/\ (\E r \in DOMAIN heap, i \in Indices, v \in WriteVals : CallerWrite(r, i, v))
            => \A k \in DOMAIN vecs : components(k)' = components(k)
       /\ \A k \in DOMAIN vecs :
            (\E i \in Indices, v \in WriteVals : SetItem(k, i, v))
                => \A j \in DOMAIN vecs \ {k} : components(j)' = components(j)]_vars

\* C5: each of map, add, sub, mul, div, unit and midpoint leaves every array and
\* every vector as it was and returns a new vector over a new array, which no
\* earlier vector holds;
\* an assignment after it that changes the result's components changes those of
\* no earlier vector, and one that changes an earlier vector's components does
\* not change the result's.
MethodsAllocate ==
    [][/\ (call.op = "constructed" /\ call'.op = "returned") =>
            /\ \A r \in DOMAIN heap : heap'[r] = heap[r]
            /\ \A k \in DOMAIN vecs : vecs'[k] = vecs[k]
            /\ Len(vecs') = Len(vecs) + 1
            /\ vecs'[Len(vecs')].components \notin DOMAIN heap
            /\ vecs'[Len(vecs')].components \in DOMAIN heap'
       /\ (call.op = "returned" /\ call'.op = "assigned") =>
            LET result == Len(vecs)
                changed == {k \in DOMAIN vecs : components(k)' # components(k)}
            IN  \/ changed = {}
                \/ changed = {result}
                \/ result \notin changed]_vars

\* C12: an indexed write vec[i] = v with 0 <= i < N, and a named write of an
\* axis the vector has, completes without raising an error for every numeric
\* v, the falsy ones included, and after the indexed write getItem(i) returns v.
WritesComplete ==
    [][\A k \in DOMAIN vecs, i \in Indices, v \in WriteVals :
          /\ (i < length(k) /\ IndexWrite(k, i, v)) => (~thrown' /\ getItem(k, i)' = v)
          /\ NamedWrite(k, i, v) => ~thrown']_vars

\* ======================================================== claims: zipWith

MinLen(xs) == CHOOSE n \in {Len(xs[k]) : k \in DOMAIN xs} : \A k \in DOMAIN xs : n <= Len(xs[k])

\* C8: zipWith(fn, seq1, ..., seqK), K >= 1, returns a sequence of length
\* min(len(seq1), ..., len(seqK)) whose i-th element is fn(seq1[i], ..., seqK[i])
\* with the arguments in input order; the result is empty and fn is never invoked
\* when an input is empty; no input sequence is modified.
ZipWithElementwise ==
    call.op = "zipWith" =>
        LET xs == call.xs
        IN  /\ Len(ret.out) = MinLen(xs)
            /\ \A i \in 1..MinLen(xs) :
                    ret.out[i] = Fn(call.fn, [k \in DOMAIN xs |-> xs[k][i]])
            /\ (\E k \in DOMAIN xs : xs[k] = <<>>) => (ret.out = <<>> /\ ret.calls = 0)
            /\ ret.xs = xs

\* Three arrays of lengths 2, 1, 2 zipped by a function that tells its
\* arguments apart: one element, 2 + 2*1 + 4*1.
ZipWithShortestWitness ==
    /\ call.op = "zipWith"
    /\ call.fn = "weigh"
    /\ call.xs = <<(<<Num(2), Num(1)>>), (<<Num(1)>>), (<<Num(1), Num(2)>>)>>
    /\ ret.out = <<Num(8)>>

\* The length of the shortest of xs, and 0 when there is none.
ShortestLen(xs) == IF xs = <<>> THEN 0 ELSE MinLen(xs)

\* C11: every call zipWith(fn, ...xs) with K >= 0 arrays reaches the base case
\* after at most min-length + 1 nested calls: the stack never holds more
\* activations than that, and the call never ends by exhausting it.
ZipWithReachesBase ==
    call.op = "zipWith" =>
        /\ ret.depth <= ShortestLen(call.xs) + 1
        /\ ret.status # "RangeError"

\* ================================================= claims: vector algebra

BinaryOps == {"add", "sub", "dot", "mid"}

\* C2: a binary operation on two vectors of different lengths raises
\* DimensionMismatch and applies the combining function to no element pair.
DimensionMismatchRaised ==
    (call.op \in BinaryOps /\ Len(call.a) # Len(call.b)) =>
        (ret.error = "DimensionMismatch" /\ ret.calls = 0)

\* The sum of a[i] * b[i] over the indices of a, as an integer.
RECURSIVE SumOfProducts(_, _, _)
SumOfProducts(a, b, i) ==
    IF i > Len(a) THEN 0 ELSE a[i].n * b[i].n + SumOfProducts(a, b, i + 1)

\* C9: for integer vectors a, b of equal length, dot(a, b) = dot(b, a), and it
\* is the sum of a[i] * b[i].
DotCommutes ==
    (call.op = "dot" /\ Len(call.a) = Len(call.b)) =>
        /\ ret.value = dot(call.b, call.a)
        /\ ret.value = Num(SumOfProducts(call.a, call.b, 1))

DotCommutesWitness ==
    /\ call.op = "dot"
    /\ call.a = <<Num(1), Num(1), Num(0)>>
    /\ call.b = <<Num(1), Num(1), Num(-1)>>
    /\ ret.value = Num(2)

\* C10: for integer vectors a, b of equal length, add(a, b) = add(b, a) and
\* sub(a, b) = mul(sub(b, a), -1), elementwise.
AddCommutesSubNegates ==
    /\ (call.op = "add" /\ Len(call.a) = Len(call.b)) =>
            /\ Len(ret.value) = Len(call.a)
            /\ \A i \in 1..Len(call.a) : ret.value[i] = add(call.b, call.a)[i]
    /\ (call.op = "sub" /\ Len(call.a) = Len(call.b)) =>
            /\ Len(ret.value) = Len(call.a)
            /\ \A i \in 1..Len(call.a) :
                    ret.value[i] = mul(sub(call.b, call.a), Num(-1))[i]

SubNegatesWitness ==
    /\ call.op = "sub"
    /\ call.a = <<Num(1), Num(0), Num(-1)>>
    /\ call.b = <<Num(-1), Num(1), Num(-1)>>
    /\ ret.value = <<Num(2), Num(-1), Num(0)>>

\* ========================================================== claims: Maybe

IsNone(m) == m.value = none
Absent(v) == v = Null \/ v = Undefined

\* C6, as claimed: map(f) on Just(v) returns a Just holding exactly f(v),
\* whatever f returns, and invokes f once; on None it returns None and does not
\* invoke f.
MapReturnsJustOfResult ==
    call.op = "map" =>
        IF IsNone(call.recv)
        THEN IsNone(ret.value) /\ ret.fcalls = 0
        ELSE /\ ret.fcalls = 1
             /\ ~IsNone(ret.value)
             /\ ret.value.value = MapFn(call.f, call.recv.value)

\* C6, amended: map(f) on Just(v) invokes f once and returns what
\* Maybe.just(f(v)) constructs: None when f(v) is null, undefined or the none
\* sentinel, and otherwise a Just holding f(v); on None it returns None and does
\* not invoke f.
MapReturnsJustUnlessAbsent ==
    call.op = "map" =>
        IF IsNone(call.recv)
        THEN IsNone(ret.value) /\ ret.fcalls = 0
        ELSE LET r == MapFn(call.f, call.recv.value)
             IN  /\ ret.fcalls = 1
                 /\ IF Absent(r) \/ r = none
                    THEN IsNone(ret.value)
                    ELSE ~IsNone(ret.value) /\ ret.value.value = r

\* Just(5).map(() => null) is None.
MapToNullWitness ==
    /\ call.op = "map"
    /\ call.recv = Maybe(Num(5))
    /\ call.f = "toNull"
    /\ IsNone(ret.value)
    /\ ret.fcalls = 1

\* C7: Maybe.just(value) and Maybe.from(value) construct None when value is null
\* or undefined and Just(value) for every other value; match on the result
\* invokes only the none handler in the first case and only the just handler,
\* with that value, in the second.
JustCoercesOnlyAbsent ==
    call.op \in {"just", "from"} =>
        LET m == Maybe_match(ret.value, "id", "minusOne")
        IN  IF Absent(call.arg)
            THEN IsNone(ret.value) /\ m.invoked = <<"none">>
            ELSE /\ ~IsNone(ret.value)
                 /\ ret.value.value = call.arg
                 /\ m.invoked = <<"just">>
                 /\ m.args = <<call.arg>>

====
